---- MODULE Spec2Model ----
(***************************************************************************)
(* A model of the voice conference server (src/voice/src/lib.rs and        *)
(* src/voice/src/audio.rs): the room table, the channel registry, the      *)
(* per-call mixer and the per-participant output sequencers, with one      *)
(* action per handler.  Every action is a whole handler: it runs from the  *)
(* arrival of the event to the handler's return, and `sent` holds what the *)
(* handler pushed on the transport.                                        *)
(***************************************************************************)
EXTENDS Integers, Sequences, FiniteSets, Bags, TLC

(***************************************************************************)
(* Bounds of the model.                                                    *)
(***************************************************************************)
\* transport channels (WebSocket connections) over a run; an id is not reused
MaxChannels == 3
\* calls that exist at the same time
MaxCalls == 2
\* anonymous participant ids in use at the same time
MaxAnon == 2
\* output frames per participant the model follows after a join
MaxSeq == 2
\* chat messages kept per call
MaxChat == 2
\* events served in one run of the whole server
MaxSteps == 4
\* events served in one run of the room lifecycle
MaxRoomSteps == 6
\* events served in one run that starts at the end of the counter's range
MaxWrapSteps == 4
\* events served in one run of the audio path
MaxAudioSteps == 5
\* events served in one run of the role handlers
MaxRoleSteps == 4
\* events served in one run of the chat and mute handlers
MaxChatSteps == 4

(***************************************************************************)
(* Program constants.                                                      *)
(***************************************************************************)
\* milliseconds per frame, the factor of the derived timestamp
FrameMs == 20

Channels == 1..MaxChannels
CallId(i) == "our-" \o ToString(i)
CallIds == {CallId(i) : i \in 1..MaxCalls}
AnonId(i) == "a" \o ToString(i)
AnonIds == {AnonId(i) : i \in 1..MaxAnon}
\* our().node, the node this server runs on
OurNode == "our"
\* nodes that may ask for a token through node_handshake
RemoteNodes == {"n1"}
\* the auth tokens a handshake hands out, and one that was never handed out
Tokens == {"t1"}
BadToken == "bad"
NoToken == "none"
\* Option::None of a participant id or of a display name
None == "None"
\* the word dictionary of init (36 words in the source; two stand for them)
word_dictionary == {"apple", "banana"}
Roles == {"Listener", "Chatter", "Speaker", "Admin"}
\* payloads of an inbound AudioData after base64_to_bytes: a bare codec
\* frame, an Ogg page, bytes the codec rejects, and no bytes at all
Payloads == {"opus", "OggS", "junk", ""}

VARIABLES
    calls,                        \* VoiceState.calls: call id -> Call
    connections,                  \* channel_id -> participant_id
    participant_channels,         \* participant_id -> channel_id
    call_channels,                \* call_id -> set of channel ids
    used_pleb_names,              \* call_id -> names handed out
    node_auth_tokens,             \* auth_token -> node id
    audio_processors,             \* call_id -> AudioProcessor
    participant_output_sequences, \* participant_id -> u32
    sent,      \* what the last handler pushed: a sequence of loops, each a bag of [ch, msg]
    last,      \* the event the last handler served
    closed,    \* channels whose Close event has been served
    blocked,   \* the event task is inside a handler that never returns
    rx_next,   \* history: channel -> the sequence its client expects next since its join
    informed,  \* history: channel -> the participants its client has been told are present
    join_senders, \* history: call id -> the channels that sent a JoinCall for the call
    steps      \* the number of events the run still serves

vars == <<calls, connections, participant_channels, call_channels, used_pleb_names,
          node_auth_tokens, audio_processors, participant_output_sequences,
          sent, last, closed, blocked, rx_next, informed, join_senders, steps>>

(***************************************************************************)
(* Maps (HashMap) as functions with a finite domain.                       *)
(***************************************************************************)
EmptyMap == [k \in {} |-> 0]
MapPut(f, k, v) == [x \in (DOMAIN f) \cup {k} |-> IF x = k THEN v ELSE f[x]]
MapDel(f, k) == [x \in (DOMAIN f) \ {k} |-> f[x]]
Range(f) == {f[x] : x \in DOMAIN f}

(***************************************************************************)
(* Unsigned integers of the program's width.  The integers of the model    *)
(* checker are 32-bit signed, so a u32 is kept as its two 16-bit limbs     *)
(* <<high, low>> and a u64 as four, most significant first.                *)
(***************************************************************************)
LimbBase == 2^16
U32(n) == <<n \div LimbBase, n % LimbBase>>
\* u32::MAX
U32Max == <<LimbBase - 1, LimbBase - 1>>
\* s + 1 for s below u32::MAX
U32Succ(s) == IF s[2] = LimbBase - 1 THEN <<s[1] + 1, 0>> ELSE <<s[1], s[2] + 1>>
\* s - 1 for s above 0
U32Pred(s) == IF s[2] = 0 THEN <<s[1] - 1, LimbBase - 1>> ELSE <<s[1], s[2] - 1>>
\* a < b
U32Less(a, b) == a[1] < b[1] \/ (a[1] = b[1] /\ a[2] < b[2])
\* `s as u64`
U64FromU32(s) == <<0, 0, s[1], s[2]>>
\* x * k in u64 (wrapping), for a small factor k
U64MulSmall(x, k) ==
    LET p0 == x[4] * k
        p1 == x[3] * k + (p0 \div LimbBase)
        p2 == x[2] * k + (p1 \div LimbBase)
        p3 == x[1] * k + (p2 \div LimbBase)
    IN <<p3 % LimbBase, p2 % LimbBase, p1 % LimbBase, p0 % LimbBase>>

(***************************************************************************)
(* Outbound fan-out.  A handler's output is a sequence of loops; the order *)
(* inside one loop is the iteration order of a HashMap or HashSet, which   *)
(* the language does not fix, so a loop is a bag of pushes.                *)
(***************************************************************************)
Push(c, m) == [ch |-> c, msg |-> m]

\* send_to_channel: one push
send_to_channel(c, m) == SetToBag({Push(c, m)})

\* send_error_to_channel
send_error_to_channel(c, text) == send_to_channel(c, [type |-> "Error", text |-> text])

\* the pushes of one loop over the set S, F(x) being what the loop pushes for x
LoopBag(S, F(_)) == [e \in {F(x) : x \in S} |-> Cardinality({x \in S : F(x) = e})]

\* one push per participant of the call that has a channel, except to channel `ex`
BroadcastBag(cs, pc, cid, ex, m) ==
    IF cid \notin DOMAIN cs THEN EmptyBag
    ELSE LoopBag({p \in DOMAIN cs[cid].participants : p \in DOMAIN pc /\ pc[p] # ex},
                 LAMBDA p : Push(pc[p], m))

\* broadcast_to_call over the given call table and participant -> channel map
broadcast_to_call(cs, pc, cid, m) == BroadcastBag(cs, pc, cid, 0, m)

\* broadcast_to_call_except
broadcast_to_call_except(cs, pc, cid, ex, m) == BroadcastBag(cs, pc, cid, ex, m)

\* disconnect_all_call_channels: CallEnded to every channel of the call's
\* channel set, then CloseConnection to every one of them in a second loop
disconnect_all_call_channels(cc, cid) ==
    IF cid \notin DOMAIN cc THEN << >>
    ELSE << SetToBag({Push(c, [type |-> "CallEnded"]) : c \in cc[cid]}),
            SetToBag({Push(c, [type |-> "CloseConnection"]) : c \in cc[cid]}) >>

\* the loops that pushed something
Emit(loops) == SelectSeq(loops, LAMBDA b : b # EmptyBag)

\* what the clients know after one loop of pushes: JoinSuccess brings the
\* participant list, ParticipantJoined adds one, ParticipantLeft removes
\* one, CallEnded and CloseConnection leave nobody
InformedBy(known, loop) ==
    [c \in DOMAIN known |->
        LET ms == {e.msg : e \in {x \in BagToSet(loop) : x.ch = c}}
            of(type) == {m \in ms : m.type = type}
        IN IF of("JoinSuccess") # {}
           THEN (CHOOSE m \in of("JoinSuccess") : TRUE).participants
           ELSE IF of("CallEnded") \cup of("CloseConnection") # {}
           THEN {}
           ELSE (known[c] \cup {m.participant_id : m \in of("ParticipantJoined")})
                   \ {m.participant_id : m \in of("ParticipantLeft")}]

\* what the clients know after the loops of one handler, in their order
Informed(known, out) ==
    LET RECURSIVE After(_, _)
        After(k, o) == IF o = << >> THEN k
                       ELSE After(InformedBy(k, Head(o)), Tail(o))
    IN After(known, out)

(***************************************************************************)
(* AudioProcessor (audio.rs).  The decoder, encoder, raw, PCM and has-sent *)
(* maps always have the same key set; `raw` stands for it.                 *)
(***************************************************************************)
\* AudioProcessor::new
NewProcessor == [raw |-> EmptyMap, audio |-> EmptyMap, has_sent |-> EmptyMap,
                 ogg_streams |-> {}]

\* AudioProcessor::has_participant
has_participant(proc, p) == p \in DOMAIN proc.raw

\* AudioProcessor::add_participant: fresh codec state, empty raw slot, silent PCM
add_participant(proc, p) ==
    [proc EXCEPT !.raw = MapPut(proc.raw, p, ""),
                 !.audio = MapPut(proc.audio, p, "silence"),
                 !.has_sent = MapPut(proc.has_sent, p, FALSE)]

\* AudioProcessor::remove_participant
remove_participant(proc, p) ==
    [raw |-> MapDel(proc.raw, p),
     audio |-> MapDel(proc.audio, p),
     has_sent |-> MapDel(proc.has_sent, p),
     ogg_streams |-> proc.ogg_streams \ {p}]

\* the participants registered in the mixer of a call (none without a mixer)
MixerMembers(cid) ==
    IF cid \in DOMAIN audio_processors THEN DOMAIN audio_processors[cid].raw ELSE {}

(***************************************************************************)
(* Identifiers.  generate_id draws 64 random bits: the model takes an id   *)
(* that occurs nowhere in the state, which is what a fresh draw is.        *)
(***************************************************************************)
ChatSenders == UNION {{calls[c].chat_history[i].sender_id :
                          i \in 1..Len(calls[c].chat_history)} : c \in DOMAIN calls}

InUse(p) ==
    \/ p \in Range(connections)
    \/ p \in DOMAIN participant_channels
    \/ p \in DOMAIN participant_output_sequences
    \/ \E c \in DOMAIN calls : \/ p \in DOMAIN calls[c].participants
                               \/ p = calls[c].creator_id
                               \/ p = calls[c].host_id
    \/ \E c \in DOMAIN audio_processors : p \in DOMAIN audio_processors[c].raw
    \/ p \in ChatSenders

\* generate_id for a participant: the first id that is free (all free ids are alike)
FreshIds == {AnonId(i) : i \in {k \in 1..MaxAnon :
                /\ ~InUse(AnonId(k))
                /\ \A j \in 1..(k - 1) : InUse(AnonId(j))}}

\* find_participant_call: the calls a participant id is found in; the code
\* returns the first in the iteration order of the call table
CallsOf(p) == {c \in DOMAIN calls : p \in DOMAIN calls[c].participants}

\* VoiceProcess after init: every table is empty
Constructed ==
    /\ calls = EmptyMap
    /\ connections = EmptyMap
    /\ participant_channels = EmptyMap
    /\ call_channels = EmptyMap
    /\ used_pleb_names = EmptyMap
    /\ node_auth_tokens = EmptyMap
    /\ audio_processors = EmptyMap
    /\ participant_output_sequences = EmptyMap
    /\ sent = << >>
    /\ last = [op |-> "init"]
    /\ closed = {}
    /\ blocked = FALSE
    /\ rx_next = EmptyMap
    /\ informed = [c \in Channels |-> {}]
    /\ join_senders = EmptyMap

Init == Constructed /\ steps = MaxSteps

\* an event is taken from the transport and its handler runs
Serve(ev) ==
    /\ steps > 0
    /\ steps' = steps - 1
    /\ last' = ev

(***************************************************************************)
(* HTTP: create_call.  generate_call_id is modelled by an id that is not   *)
(* in the call table.                                                      *)
(***************************************************************************)
create_call(default_role) ==
    /\ ~blocked
    /\ \E i \in 1..MaxCalls : LET cid == CallId(i) IN
        /\ cid \notin DOMAIN calls
        /\ \A j \in 1..(i - 1) : CallId(j) \in DOMAIN calls
        /\ calls' = MapPut(calls, cid,
                       [participants |-> EmptyMap, chat_history |-> << >>,
                        default_role |-> default_role,
                        creator_id |-> None, host_id |-> None])
        /\ used_pleb_names' = MapPut(used_pleb_names, cid, {})
        /\ join_senders' = MapPut(join_senders, cid, {})
        /\ Serve([op |-> "create_call", call |-> cid])
    /\ sent' = << >>
    /\ UNCHANGED <<connections, participant_channels, call_channels, node_auth_tokens,
                   audio_processors, participant_output_sequences, closed, blocked,
                   rx_next, informed>>

(***************************************************************************)
(* Remote: node_handshake stores a fresh token for the asking node.        *)
(***************************************************************************)
node_handshake(cid, node) ==
    /\ ~blocked
    /\ cid \in DOMAIN calls
    /\ \E tok \in Tokens \ DOMAIN node_auth_tokens :
        /\ node_auth_tokens' = MapPut(node_auth_tokens, tok, node)
        /\ Serve([op |-> "node_handshake", call |-> cid, node |-> node])
    /\ sent' = << >>
    /\ UNCHANGED <<calls, connections, participant_channels, call_channels,
                   used_pleb_names, audio_processors, participant_output_sequences,
                   closed, blocked, rx_next, informed, join_senders>>

(***************************************************************************)
(* WebSocket: JoinCall.                                                    *)
(***************************************************************************)
\* history: the channels that have sent a JoinCall for each call of the
\* registry after the step, the JoinCall being served included
JoinSenders ==
    [cid \in DOMAIN calls' |->
        (IF cid \in DOMAIN join_senders THEN join_senders[cid] ELSE {})
        \cup (IF last'.op = "JoinCall" /\ last'.call = cid THEN {last'.ch} ELSE {})]

\* the host node a call id names: the text before its first '-'
HostNodeOf(cid) == OurNode

\* a draw that hands out a name whether or not it was handed out before
PlebNamesAll(cid) == {"pleb-" \o w : w \in word_dictionary}

\* generate_pleb_name: the names a draw can return, one per word not yet
\* handed out in the call (the loop draws again on a name already used)
PlebNames(cid) == {"pleb-" \o w : w \in word_dictionary} \ used_pleb_names[cid]

\* JoinCall, identity resolution: the identities the joiner can get, or none
\* when the join is refused.  `pleb` is the generated name, if one was drawn.
Identities(cid, tok, dn) ==
    IF tok # NoToken
    THEN IF tok \in DOMAIN node_auth_tokens
         THEN LET node == node_auth_tokens[tok] IN
              {[pid |-> node, name |-> IF dn # None THEN dn ELSE node,
                ctype |-> "Node", pleb |-> None]}
         ELSE IF HostNodeOf(cid) = OurNode /\ calls[cid].creator_id = None
              THEN {[pid |-> OurNode, name |-> IF dn # None THEN dn ELSE OurNode,
                     ctype |-> "Node", pleb |-> None]}
              ELSE {}
    ELSE IF dn # None
         THEN {[pid |-> p, name |-> dn, ctype |-> "Browser", pleb |-> None] :
                  p \in FreshIds}
         ELSE IF calls[cid].creator_id = None
              THEN {[pid |-> p, name |-> "Host", ctype |-> "Browser", pleb |-> None] :
                       p \in FreshIds}
              ELSE {[pid |-> p, name |-> n, ctype |-> "Browser", pleb |-> n] :
                       p \in FreshIds, n \in PlebNames(cid)}

\* the anonymous join without a display name finds every name handed out:
\* generate_pleb_name loops for ever
PlebLoops(cid, tok, dn) ==
    /\ tok = NoToken /\ dn = None
    /\ calls[cid].creator_id # None
    /\ PlebNames(cid) = {}

\* a join that hands every joiner the room's default role
JoinRoleDefault(call) == call.default_role

\* the role a joiner gets: Admin for the first, the default role after
JoinRole(call) == IF call.creator_id = None THEN "Admin" ELSE call.default_role

\* the Call after the joiner is inserted
JoinedCall(call, id, ch) ==
    [call EXCEPT
        !.creator_id = IF call.creator_id = None THEN id.pid ELSE @,
        !.host_id = IF call.creator_id = None THEN id.pid ELSE @,
        !.participants = MapPut(@, id.pid,
            [role |-> JoinRole(call), is_muted |-> TRUE,
             display_name |-> id.name, connection_type |-> id.ctype,
             via |-> ch])]

\* JoinCall: store connection mapping
JoinConnections(ch, pid) == MapPut(connections, ch, pid)
JoinParticipantChannels(ch, pid) == MapPut(participant_channels, pid, ch)

\* what JoinSuccess carries
JoinSuccess(call, pid) ==
    [type |-> "JoinSuccess", participant_id |-> pid,
     role |-> call.participants[pid].role,
     participants |-> DOMAIN call.participants,
     chat_history |-> call.chat_history,
     host_id |-> call.host_id]

JoinCall(ch, cid, tok, dn) ==
    /\ ~blocked /\ ch \notin closed
    /\ Serve([op |-> "JoinCall", ch |-> ch, call |-> cid, tok |-> tok, dn |-> dn])
    /\ IF cid \notin DOMAIN calls
       THEN /\ sent' = <<send_error_to_channel(ch, "Call not found")>>
            /\ UNCHANGED <<calls, connections, participant_channels, call_channels,
                           used_pleb_names, audio_processors,
                           participant_output_sequences, blocked, rx_next>>
       ELSE IF PlebLoops(cid, tok, dn)
       THEN /\ blocked' = TRUE
            /\ sent' = << >>
            /\ UNCHANGED <<calls, connections, participant_channels, call_channels,
                           used_pleb_names, audio_processors,
                           participant_output_sequences, rx_next>>
       ELSE IF tok # NoToken /\ Identities(cid, tok, dn) = {}
       THEN /\ sent' = <<send_error_to_channel(ch, "Invalid authentication token")>>
            /\ UNCHANGED <<calls, connections, participant_channels, call_channels,
                           used_pleb_names, audio_processors,
                           participant_output_sequences, blocked, rx_next>>
       ELSE \E id \in Identities(cid, tok, dn) :
            LET call2 == JoinedCall(calls[cid], id, ch)
                calls2 == [calls EXCEPT ![cid] = call2]
                pc2 == JoinParticipantChannels(ch, id.pid)
                proc == IF cid \in DOMAIN audio_processors
                        THEN audio_processors[cid] ELSE NewProcessor
            IN  /\ calls' = calls2
                /\ used_pleb_names' =
                      IF id.pleb = None THEN used_pleb_names
                      ELSE [used_pleb_names EXCEPT ![cid] = @ \cup {id.pleb}]
                /\ connections' = JoinConnections(ch, id.pid)
                /\ participant_channels' = pc2
                /\ call_channels' = MapPut(call_channels, cid,
                      (IF cid \in DOMAIN call_channels THEN call_channels[cid] ELSE {})
                          \cup {ch})
                /\ audio_processors' =
                      MapPut(audio_processors, cid, add_participant(proc, id.pid))
                /\ participant_output_sequences' =
                      MapPut(participant_output_sequences, id.pid, U32(0))
                /\ rx_next' = MapPut(rx_next, ch, U32(0))
                /\ sent' = Emit(<<
                      send_to_channel(ch, JoinSuccess(call2, id.pid)),
                      broadcast_to_call_except(calls2, pc2, cid, ch,
                          [type |-> "ParticipantJoined", participant_id |-> id.pid,
                           role |-> call2.participants[id.pid].role]) >>)
                /\ UNCHANGED blocked
    /\ UNCHANGED <<node_auth_tokens, closed>>
    /\ informed' = Informed(informed, sent')
    /\ join_senders' = JoinSenders

(***************************************************************************)
(* WebSocket: Close (handle_disconnect).                                   *)
(***************************************************************************)
\* handle_disconnect: should the call end after the participant is removed
DisconnectEndsCall(call, pid) ==
    \/ DOMAIN MapDel(call.participants, pid) = {}
    \/ call.host_id = pid

\* a departure that leaves the mixers as they are
ProcessorsKept(cid, pid) == audio_processors

\* the mixers after remove_participant(pid) in the mixer of call cid, if it has one
ProcessorsWithout(cid, pid) ==
    IF cid \in DOMAIN audio_processors
    THEN [audio_processors EXCEPT ![cid] = remove_participant(@, pid)]
    ELSE audio_processors

Close(ch) ==
    /\ ~blocked /\ ch \notin closed
    /\ closed' = closed \cup {ch}
    /\ Serve([op |-> "Close", ch |-> ch])
    /\ rx_next' = MapDel(rx_next, ch)
    /\ IF ch \notin DOMAIN connections
       THEN /\ sent' = << >>
            /\ UNCHANGED <<calls, connections, participant_channels, call_channels,
                           used_pleb_names, audio_processors,
                           participant_output_sequences>>
       ELSE LET pid == connections[ch]
                pc2 == MapDel(participant_channels, pid)
            IN  /\ connections' = MapDel(connections, ch)
                /\ participant_channels' = pc2
                /\ IF CallsOf(pid) = {}
                   THEN /\ sent' = << >>
                        /\ UNCHANGED <<calls, call_channels, used_pleb_names,
                                       audio_processors, participant_output_sequences>>
                   ELSE \E cid \in CallsOf(pid) :
                        LET procs2 == ProcessorsWithout(cid, pid)
                            cc2 == IF cid \in DOMAIN call_channels
                                   THEN [call_channels EXCEPT ![cid] = @ \ {ch}]
                                   ELSE call_channels
                            calls2 == [calls EXCEPT ![cid].participants = MapDel(@, pid)]
                        IN  /\ participant_output_sequences' =
                                  MapDel(participant_output_sequences, pid)
                            /\ IF DisconnectEndsCall(calls[cid], pid)
                               THEN /\ sent' = Emit(disconnect_all_call_channels(cc2, cid))
                                    /\ calls' = MapDel(calls2, cid)
                                    /\ used_pleb_names' = MapDel(used_pleb_names, cid)
                                    /\ call_channels' = MapDel(cc2, cid)
                                    /\ audio_processors' = MapDel(procs2, cid)
                               ELSE /\ sent' = Emit(<<broadcast_to_call(calls2, pc2, cid,
                                           [type |-> "ParticipantLeft",
                                            participant_id |-> pid])>>)
                                    /\ calls' = calls2
                                    /\ call_channels' = cc2
                                    /\ audio_processors' = procs2
                                    /\ UNCHANGED used_pleb_names
    /\ UNCHANGED <<node_auth_tokens, blocked>>
    /\ informed' = Informed(informed, sent')
    /\ join_senders' = JoinSenders

(***************************************************************************)
(* HTTP: leave_call.                                                       *)
(***************************************************************************)
\* a should_end_call that looks at the emptiness of the call only
LeaveEndsCallIfEmpty(call, pid) ==
    Cardinality(DOMAIN call.participants) <= 1 /\ pid \in DOMAIN call.participants

\* leave_call: should_end_call
LeaveEndsCall(call, pid) ==
    \/ (Cardinality(DOMAIN call.participants) <= 1 /\ pid \in DOMAIN call.participants)
    \/ call.host_id = pid

leave_call(cid, pid) ==
    /\ ~blocked
    /\ Serve([op |-> "leave_call", call |-> cid, pid |-> pid])
    /\ IF cid \notin DOMAIN calls
       THEN /\ sent' = << >>
            /\ UNCHANGED <<calls, connections, participant_channels, call_channels,
                           used_pleb_names, audio_processors,
                           participant_output_sequences, rx_next>>
       ELSE LET procs2 == ProcessorsWithout(cid, pid) IN
            /\ participant_output_sequences' = MapDel(participant_output_sequences, pid)
            /\ UNCHANGED rx_next
            /\ IF LeaveEndsCall(calls[cid], pid)
               THEN /\ sent' = Emit(disconnect_all_call_channels(call_channels, cid))
                    /\ calls' = MapDel(calls, cid)
                    /\ used_pleb_names' = MapDel(used_pleb_names, cid)
                    /\ call_channels' = MapDel(call_channels, cid)
                    /\ audio_processors' = MapDel(procs2, cid)
                    /\ UNCHANGED <<connections, participant_channels>>
               ELSE LET calls2 == [calls EXCEPT ![cid].participants = MapDel(@, pid)]
                        has_ch == pid \in DOMAIN participant_channels
                        pc2 == MapDel(participant_channels, pid)
                    IN  /\ calls' = calls2
                        /\ participant_channels' = pc2
                        /\ connections' =
                              IF has_ch THEN MapDel(connections, participant_channels[pid])
                              ELSE connections
                        /\ call_channels' =
                              IF has_ch /\ cid \in DOMAIN call_channels
                              THEN [call_channels EXCEPT
                                       ![cid] = @ \ {participant_channels[pid]}]
                              ELSE call_channels
                        /\ audio_processors' = procs2
                        /\ sent' = Emit(<<broadcast_to_call(calls2, pc2, cid,
                               [type |-> "ParticipantLeft", participant_id |-> pid])>>)
                        /\ UNCHANGED used_pleb_names
    /\ UNCHANGED <<node_auth_tokens, closed, blocked>>
    /\ informed' = Informed(informed, sent')
    /\ join_senders' = JoinSenders

(***************************************************************************)
(* WebSocket: the messages that need a bound channel.                      *)
(***************************************************************************)
\* a handler that returns without an answer
RejectSilently(ch, text) ==
    /\ sent' = << >>
    /\ UNCHANGED <<calls, connections, participant_channels, call_channels,
                   used_pleb_names, audio_processors, participant_output_sequences,
                   rx_next>>

\* the handler answers with one Error and returns
Reject(ch, text) ==
    /\ sent' = <<send_error_to_channel(ch, text)>>
    /\ UNCHANGED <<calls, connections, participant_channels, call_channels,
                   used_pleb_names, audio_processors, participant_output_sequences,
                   rx_next>>

\* the authentication gate and find_participant_call: Body gets the bound
\* participant, the call it was found in and its role there
WithParticipant(ch, Body(_, _, _)) ==
    IF ch \notin DOMAIN connections THEN Reject(ch, "Not authenticated")
    ELSE IF CallsOf(connections[ch]) = {} THEN Reject(ch, "Not in a call")
    ELSE \E cid \in CallsOf(connections[ch]) :
            Body(connections[ch], cid, calls[cid].participants[connections[ch]].role)

\* a chat gate that lets every role write
can_chat_any(role) == TRUE

\* can_chat
can_chat(role) == role \in {"Chatter", "Speaker", "Admin"}

\* an audio gate as wide as the chat gate
can_speak_as_chat(role) == role # "Listener"

\* a gate that lets every role speak
can_speak_any(role) == TRUE

\* may the role send audio
can_speak(role) == role \in {"Speaker", "Admin"}

ChatBody(ch, pid, cid, role, content) ==
    IF ~can_chat(role) THEN Reject(ch, "No chat permission")
    ELSE LET chat_msg == [sender_id |-> pid,
                          sender_name |-> calls[cid].participants[pid].display_name,
                          content |-> content]
             calls2 == [calls EXCEPT ![cid].chat_history = Append(@, chat_msg)]
         IN  /\ Len(calls[cid].chat_history) < MaxChat
             /\ calls' = calls2
             /\ sent' = Emit(<<broadcast_to_call(calls2, participant_channels, cid,
                                  [type |-> "Chat", message |-> chat_msg])>>)
             /\ UNCHANGED <<connections, participant_channels, call_channels,
                            used_pleb_names, audio_processors,
                            participant_output_sequences, rx_next>>

Chat(ch, content) ==
    /\ ~blocked /\ ch \notin closed
    /\ Serve([op |-> "Chat", ch |-> ch])
    /\ WithParticipant(ch, LAMBDA pid, cid, role : ChatBody(ch, pid, cid, role, content))
    /\ UNCHANGED <<node_auth_tokens, closed, blocked, informed, join_senders>>

MuteBody(ch, pid, cid, is_muted) ==
    LET calls2 == [calls EXCEPT ![cid].participants[pid].is_muted = is_muted] IN
    /\ calls' = calls2
    /\ sent' = Emit(<<broadcast_to_call(calls2, participant_channels, cid,
                         [type |-> "ParticipantMuted", participant_id |-> pid,
                          is_muted |-> is_muted])>>)
    /\ UNCHANGED <<connections, participant_channels, call_channels, used_pleb_names,
                   audio_processors, participant_output_sequences, rx_next>>

Mute(ch, is_muted) ==
    /\ ~blocked /\ ch \notin closed
    /\ Serve([op |-> "Mute", ch |-> ch, muted |-> is_muted])
    /\ WithParticipant(ch, LAMBDA pid, cid, role : MuteBody(ch, pid, cid, is_muted))
    /\ UNCHANGED <<node_auth_tokens, closed, blocked, informed, join_senders>>

UpdateRoleBody(ch, cid, role, target_id, new_role) ==
    IF role # "Admin" THEN Reject(ch, "No permission to change roles")
    ELSE IF target_id \notin DOMAIN calls[cid].participants
    THEN Reject(ch, "Target participant not found")
    ELSE LET calls2 == [calls EXCEPT ![cid].participants[target_id].role = new_role] IN
         /\ calls' = calls2
         /\ sent' = Emit(<<broadcast_to_call(calls2, participant_channels, cid,
                              [type |-> "RoleUpdated", participant_id |-> target_id,
                               new_role |-> new_role])>>)
         /\ UNCHANGED <<connections, participant_channels, call_channels,
                        used_pleb_names, audio_processors,
                        participant_output_sequences, rx_next>>

UpdateRole(ch, target_id, new_role) ==
    /\ ~blocked /\ ch \notin closed
    /\ Serve([op |-> "UpdateRole", ch |-> ch, target |-> target_id, role |-> new_role])
    /\ WithParticipant(ch, LAMBDA pid, cid, role :
                              UpdateRoleBody(ch, cid, role, target_id, new_role))
    /\ UNCHANGED <<node_auth_tokens, closed, blocked, informed, join_senders>>

\* UpdateSettings: the stored settings are not part of the model's state
UpdateSettingsBody(ch, pid, cid) ==
    LET host_id == calls[cid].host_id
        m == [type |-> "SettingsUpdated", participant_id |-> pid]
    IN  /\ sent' = Emit(<<send_to_channel(ch, m),
                          IF host_id # None /\ host_id # pid
                             /\ host_id \in DOMAIN participant_channels
                          THEN send_to_channel(participant_channels[host_id], m)
                          ELSE EmptyBag>>)
        /\ UNCHANGED <<calls, connections, participant_channels, call_channels,
                       used_pleb_names, audio_processors,
                       participant_output_sequences, rx_next>>

UpdateSettings(ch) ==
    /\ ~blocked /\ ch \notin closed
    /\ Serve([op |-> "UpdateSettings", ch |-> ch])
    /\ WithParticipant(ch, LAMBDA pid, cid, role : UpdateSettingsBody(ch, pid, cid))
    /\ UNCHANGED <<node_auth_tokens, closed, blocked, informed, join_senders>>

UpdateSpeakingStateBody(pid, cid, role, is_speaking) ==
    /\ sent' = IF can_speak(role)
               THEN Emit(<<broadcast_to_call(calls, participant_channels, cid,
                              [type |-> "SpeakingStateUpdated", participant_id |-> pid,
                               is_speaking |-> is_speaking])>>)
               ELSE << >>
    /\ UNCHANGED <<calls, connections, participant_channels, call_channels,
                   used_pleb_names, audio_processors, participant_output_sequences,
                   rx_next>>

UpdateSpeakingState(ch, is_speaking) ==
    /\ ~blocked /\ ch \notin closed
    /\ Serve([op |-> "UpdateSpeakingState", ch |-> ch])
    /\ WithParticipant(ch, LAMBDA pid, cid, role :
                              UpdateSpeakingStateBody(pid, cid, role, is_speaking))
    /\ UNCHANGED <<node_auth_tokens, closed, blocked, informed, join_senders>>

\* UpdateAvatar: the stored avatar is not part of the model's state
UpdateAvatarBody(pid, cid) ==
    /\ sent' = Emit(<<broadcast_to_call(calls, participant_channels, cid,
                         [type |-> "AvatarUpdated", participant_id |-> pid])>>)
    /\ UNCHANGED <<calls, connections, participant_channels, call_channels,
                   used_pleb_names, audio_processors, participant_output_sequences,
                   rx_next>>

UpdateAvatar(ch) ==
    /\ ~blocked /\ ch \notin closed
    /\ Serve([op |-> "UpdateAvatar", ch |-> ch])
    /\ WithParticipant(ch, LAMBDA pid, cid, role : UpdateAvatarBody(pid, cid))
    /\ UNCHANGED <<node_auth_tokens, closed, blocked, informed, join_senders>>

HeartbeatBody ==
    /\ sent' = << >>
    /\ UNCHANGED <<calls, connections, participant_channels, call_channels,
                   used_pleb_names, audio_processors, participant_output_sequences,
                   rx_next>>

Heartbeat(ch) ==
    /\ ~blocked /\ ch \notin closed
    /\ Serve([op |-> "Heartbeat", ch |-> ch])
    /\ WithParticipant(ch, LAMBDA pid, cid, role : HeartbeatBody)
    /\ UNCHANGED <<node_auth_tokens, closed, blocked, informed, join_senders>>

\* websocket: a text frame that does not parse as a client message
InvalidMessage(ch) ==
    /\ ~blocked /\ ch \notin closed
    /\ Serve([op |-> "InvalidMessage", ch |-> ch])
    /\ Reject(ch, "Invalid message format")
    /\ UNCHANGED <<node_auth_tokens, closed, blocked, informed, join_senders>>

(***************************************************************************)
(* WebSocket: AudioData.  Decode, mix (audio.rs), fan-out with sequencing. *)
(***************************************************************************)
\* what the codec's decoder (an external library) returns for a payload:
\* PCM, or "Err".  With no bytes the library may conceal a lost packet or fail.
DecoderResults(data) ==
    CASE data = "opus" -> {"voice"}
      [] data = ""     -> {"silence", "Err"}
      [] OTHER         -> {"Err"}

\* AudioProcessor::decode_ogg_opus: always Ok, with the first decoded frame
\* of the pages or silence
decode_ogg_opus(data) == {"voice", "silence"}

\* a decode_audio that conceals a failure of the decoder with silence
decode_audio_concealing(proc, pid, data) ==
    LET proc1 == IF pid \in DOMAIN proc.raw
                 THEN [proc EXCEPT !.has_sent[pid] = TRUE, !.raw[pid] = data]
                 ELSE proc
    IN {[proc |-> proc1, result |-> "silence"]}

\* AudioProcessor::decode_audio: the has-sent flag and the raw slot are
\* written first, then the payload is decoded; each outcome is the
\* processor after the call and the result
decode_audio(proc, pid, data) ==
    LET proc1 == IF pid \in DOMAIN proc.raw
                 THEN [proc EXCEPT !.has_sent[pid] = TRUE, !.raw[pid] = data]
                 ELSE proc
        results == IF data = "OggS" THEN decode_ogg_opus(data)
                   ELSE DecoderResults(data)
    IN {[proc |-> proc1, result |-> r] : r \in results}

\* AudioProcessor::update_participant_audio
update_participant_audio(proc, pid, pcm) ==
    IF pid \in DOMAIN proc.audio THEN [proc EXCEPT !.audio[pid] = pcm] ELSE proc

\* create_mix_minus_outputs: the participants with a non-empty raw slot
ActiveParticipants(proc) ==
    {p \in DOMAIN proc.raw : proc.raw[p] # "" /\ p \in DOMAIN proc.audio}

\* one mix of every active participant for every target
ContributorsAll(proc, t) == ActiveParticipants(proc)

\* create_mix_minus_outputs: whose PCM is summed into the frame of target t
Contributors(proc, t) ==
    IF t \in ActiveParticipants(proc)
    THEN ActiveParticipants(proc) \ {t}
    ELSE ActiveParticipants(proc)

\* create_mix_minus_outputs: the targets that get a frame (has_audio)
MixTargets(proc) == {t \in DOMAIN proc.audio : Contributors(proc, t) # {}}

\* write_to_ogg_stream: what wraps the encoded frame of target t
OggWrap(proc, t) == IF t \in proc.ogg_streams THEN "page" ELSE "headers+page"

\* AudioProcessor::create_mix_minus_outputs: the processor after the mix
\* step and the frame of each target (the PCM it sums, by contributor)
create_mix_minus_outputs(proc) ==
    [proc |-> [proc EXCEPT !.ogg_streams = @ \cup MixTargets(proc)],
     outputs |-> [t \in MixTargets(proc) |->
                    [mix |-> [q \in Contributors(proc, t) |-> proc.audio[q]],
                     container |-> OggWrap(proc, t)]]]

\* a counter that stays at u32::MAX
NextSeqSaturating(s) == IF s = U32Max THEN U32Max ELSE U32Succ(s)

\* the wraparound of the output counter
NextSeq(s) == IF s = U32Max THEN U32(0) ELSE U32Succ(s)

\* the timestamp derived from a sequence value, in u64
Timestamp(seq) == U64MulSmall(U64FromU32(seq), FrameMs)

\* entry(target).or_insert(0)
SeqOf(seqs, t) == IF t \in DOMAIN seqs THEN seqs[t] ELSE U32(0)

\* the outbound AudioData of one target
AudioMessage(frame, seq) ==
    [type |-> "AudioData", participant_id |-> "audio-stream", sequence |-> seq,
     timestamp |-> Timestamp(seq), data |-> frame]

\* the counters the model follows: the first MaxSeq values and the last MaxSeq
Followed(s) ==
    \/ s[1] = 0 /\ s[2] < MaxSeq
    \/ s[1] = LimbBase - 1 /\ s[2] > LimbBase - 1 - MaxSeq

\* history: what the client of each channel expects next after these deliveries
RxAfter(rx, pc, seqs, targets) ==
    [c \in DOMAIN rx |->
        LET got == {SeqOf(seqs, t) : t \in {x \in targets : pc[x] = c}} IN
        IF got = {} THEN rx[c]
        ELSE NextSeq(CHOOSE s \in got : \A o \in got : ~U32Less(s, o))]

AudioDataBody(ch, pid, cid, role, data) ==
    IF ~can_speak(role) THEN Reject(ch, "No audio permission")
    ELSE LET proc0 == IF cid \in DOMAIN audio_processors
                      THEN audio_processors[cid] ELSE NewProcessor
             proc1 == IF has_participant(proc0, pid) THEN proc0
                      ELSE add_participant(proc0, pid)
         IN \E d \in decode_audio(proc1, pid, data) :
            IF d.result = "Err"
            THEN /\ audio_processors' = MapPut(audio_processors, cid, d.proc)
                 /\ sent' = <<send_error_to_channel(ch, "Audio decode error")>>
                 /\ UNCHANGED <<calls, connections, participant_channels, call_channels,
                                used_pleb_names, participant_output_sequences, rx_next>>
            ELSE LET mixed == create_mix_minus_outputs(
                                  update_participant_audio(d.proc, pid, d.result))
                     targets == {t \in DOMAIN mixed.outputs :
                                    t \in DOMAIN participant_channels}
                     seqs == participant_output_sequences
                 IN  /\ \A t \in targets : Followed(SeqOf(seqs, t))
                     /\ audio_processors' = MapPut(audio_processors, cid, mixed.proc)
                     /\ participant_output_sequences' =
                           [t \in (DOMAIN seqs) \cup targets |->
                               IF t \in targets THEN NextSeq(SeqOf(seqs, t))
                               ELSE seqs[t]]
                     /\ sent' = Emit(<<LoopBag(targets, LAMBDA t :
                           Push(participant_channels[t],
                                AudioMessage(mixed.outputs[t], SeqOf(seqs, t))))>>)
                     /\ rx_next' = RxAfter(rx_next, participant_channels, seqs, targets)
                     /\ UNCHANGED <<calls, connections, participant_channels,
                                    call_channels, used_pleb_names>>

AudioData(ch, data) ==
    /\ ~blocked /\ ch \notin closed
    /\ Serve([op |-> "AudioData", ch |-> ch, data |-> data])
    /\ WithParticipant(ch, LAMBDA pid, cid, role :
                              AudioDataBody(ch, pid, cid, role, data))
    /\ UNCHANGED <<node_auth_tokens, closed, blocked, informed, join_senders>>

(***************************************************************************)
(* The server: one event at a time, in arrival order.                      *)
(***************************************************************************)
AllPids == {OurNode} \cup RemoteNodes \cup AnonIds
DisplayNames == {None, "Bob"}

Next ==
    \/ \E r \in Roles : create_call(r)
    \/ \E cid \in CallIds, n \in RemoteNodes : node_handshake(cid, n)
    \/ \E ch \in Channels, cid \in CallIds, tok \in Tokens \cup {BadToken, NoToken},
          dn \in DisplayNames : JoinCall(ch, cid, tok, dn)
    \/ \E ch \in Channels : Close(ch)
    \/ \E cid \in CallIds, pid \in AllPids : leave_call(cid, pid)
    \/ \E ch \in Channels : Chat(ch, "hi")
    \/ \E ch \in Channels, m \in BOOLEAN : Mute(ch, m)
    \/ \E ch \in Channels, data \in Payloads : AudioData(ch, data)
    \/ \E ch \in Channels, t \in AllPids, r \in Roles : UpdateRole(ch, t, r)
    \/ \E ch \in Channels : UpdateSettings(ch)
    \/ \E ch \in Channels, b \in BOOLEAN : UpdateSpeakingState(ch, b)
    \/ \E ch \in Channels : UpdateAvatar(ch)
    \/ \E ch \in Channels : Heartbeat(ch)
    \/ \E ch \in Channels : InvalidMessage(ch)

Spec == Init /\ [][Next]_vars

(***************************************************************************)
(* The room lifecycle: the handlers that write the channel registry, the   *)
(* membership of a call, its mixer and the sequencers, followed for more   *)
(* events.  The other handlers write none of these.                        *)
(***************************************************************************)
InitRooms == Constructed /\ steps = MaxRoomSteps

NextRooms ==
    \/ \E r \in {"Listener", "Speaker"} : create_call(r)
    \/ \E cid \in CallIds, n \in RemoteNodes : node_handshake(cid, n)
    \/ \E ch \in Channels, cid \in CallIds, tok \in Tokens \cup {BadToken, NoToken} :
          JoinCall(ch, cid, tok, None)
    \/ \E ch \in Channels : Close(ch)
    \/ \E cid \in CallIds, pid \in AllPids : leave_call(cid, pid)
    \/ \E ch \in Channels : AudioData(ch, "opus")

SpecRooms == InitRooms /\ [][NextRooms]_vars

(***************************************************************************)
(* The end of the counter's range.  A call whose host (channel 1) and      *)
(* guest (channel 2) have both been sending: every event fans a frame out  *)
(* to both, and the guest got one frame before the host got its first, so  *)
(* the guest's counter is one ahead.  The run starts after the event that  *)
(* brought the host's counter to u32::MAX - 1.                             *)
(***************************************************************************)
WrapHost == AnonId(1)
WrapGuest == AnonId(2)

WrapProcessor ==
    [raw |-> [p \in {WrapHost, WrapGuest} |-> "opus"],
     audio |-> [p \in {WrapHost, WrapGuest} |-> "voice"],
     has_sent |-> [p \in {WrapHost, WrapGuest} |-> TRUE],
     ogg_streams |-> {WrapHost, WrapGuest}]

WrapSequences == [p \in {WrapHost, WrapGuest} |->
                     IF p = WrapHost THEN U32Pred(U32Max) ELSE U32Max]

InitWrap ==
    /\ calls = MapPut(EmptyMap, CallId(1),
          [participants |-> [p \in {WrapHost, WrapGuest} |->
              IF p = WrapHost
              THEN [role |-> "Admin", is_muted |-> TRUE, display_name |-> "Host",
                    connection_type |-> "Browser", via |-> 1]
              ELSE [role |-> "Speaker", is_muted |-> TRUE, display_name |-> "pleb-apple",
                    connection_type |-> "Browser", via |-> 2]],
           chat_history |-> << >>, default_role |-> "Speaker",
           creator_id |-> WrapHost, host_id |-> WrapHost])
    /\ connections = [c \in {1, 2} |-> IF c = 1 THEN WrapHost ELSE WrapGuest]
    /\ participant_channels = [p \in {WrapHost, WrapGuest} |->
                                  IF p = WrapHost THEN 1 ELSE 2]
    /\ call_channels = MapPut(EmptyMap, CallId(1), {1, 2})
    /\ used_pleb_names = MapPut(EmptyMap, CallId(1), {"pleb-apple"})
    /\ node_auth_tokens = EmptyMap
    /\ audio_processors = MapPut(EmptyMap, CallId(1), WrapProcessor)
    /\ participant_output_sequences = WrapSequences
    /\ sent = <<LoopBag({WrapHost, WrapGuest}, LAMBDA t :
                  Push(participant_channels[t],
                       AudioMessage(create_mix_minus_outputs(WrapProcessor).outputs[t],
                                    U32Pred(WrapSequences[t]))))>>
    /\ last = [op |-> "AudioData", ch |-> 1, data |-> "opus"]
    /\ closed = {}
    /\ blocked = FALSE
    /\ rx_next = [c \in {1, 2} |-> WrapSequences[connections[c]]]
    /\ informed = [c \in Channels |-> IF c \in {1, 2} THEN {WrapHost, WrapGuest} ELSE {}]
    /\ join_senders = [cid \in DOMAIN calls |-> {1, 2}]
    /\ steps = MaxWrapSteps

SpecWrap == InitWrap /\ [][NextRooms]_vars

(***************************************************************************)
(* The audio path: calls of every default role, joins, departures and      *)
(* AudioData with every kind of payload.                                   *)
(***************************************************************************)
InitAudio == Constructed /\ steps = MaxAudioSteps

NextAudio ==
    \/ \E r \in Roles : create_call(r)
    \/ \E ch \in Channels, cid \in CallIds, tok \in {BadToken, NoToken} :
          JoinCall(ch, cid, tok, None)
    \/ \E ch \in Channels : Close(ch)
    \/ \E ch \in Channels, data \in Payloads : AudioData(ch, data)

SpecAudio == InitAudio /\ [][NextAudio]_vars

(***************************************************************************)
(* The role handlers: joins, closes, UpdateRole and the AudioData and Chat  *)
(* that the roles admit or refuse.                                         *)
(***************************************************************************)
\* a room as create_call leaves it
CreatedRoom(default_role) ==
    [participants |-> EmptyMap, chat_history |-> << >>,
     default_role |-> default_role, creator_id |-> None, host_id |-> None]

\* every room has been created by create_call and nobody has joined yet
InitRoles ==
    /\ calls \in {[cid \in CallIds |-> CreatedRoom(d[cid])] :
                     d \in [CallIds -> {"Listener", "Speaker"}]}
    /\ connections = EmptyMap
    /\ participant_channels = EmptyMap
    /\ call_channels = EmptyMap
    /\ used_pleb_names = [cid \in CallIds |-> {}]
    /\ node_auth_tokens = EmptyMap
    /\ audio_processors = EmptyMap
    /\ participant_output_sequences = EmptyMap
    /\ sent = << >>
    /\ last = [op |-> "create_call", call |-> CallId(MaxCalls)]
    /\ closed = {}
    /\ blocked = FALSE
    /\ rx_next = EmptyMap
    /\ informed = [c \in Channels |-> {}]
    /\ join_senders = [cid \in CallIds |-> {}]
    /\ steps = MaxRoleSteps

NextRoles ==
    \/ \E ch \in Channels, cid \in CallIds, tok \in {BadToken, NoToken} :
          JoinCall(ch, cid, tok, None)
    \/ \E ch \in Channels : Close(ch)
    \/ \E ch \in Channels, t \in AllPids, r \in Roles : UpdateRole(ch, t, r)
    \/ \E ch \in Channels : AudioData(ch, "opus")
    \/ \E ch \in Channels : Chat(ch, "hi")

SpecRoles == InitRoles /\ [][NextRoles]_vars

(***************************************************************************)
(* The chat and mute handlers, with the joins, the closes and the          *)
(* AudioData whose admission the mute flag does not decide.                *)
(***************************************************************************)
\* every room has been created by create_call and nobody has joined yet
InitChat ==
    /\ calls \in {[cid \in CallIds |-> CreatedRoom(d[cid])] :
                     d \in [CallIds -> {"Listener", "Chatter"}]}
    /\ connections = EmptyMap
    /\ participant_channels = EmptyMap
    /\ call_channels = EmptyMap
    /\ used_pleb_names = [cid \in CallIds |-> {}]
    /\ node_auth_tokens = EmptyMap
    /\ audio_processors = EmptyMap
    /\ participant_output_sequences = EmptyMap
    /\ sent = << >>
    /\ last = [op |-> "create_call", call |-> CallId(MaxCalls)]
    /\ closed = {}
    /\ blocked = FALSE
    /\ rx_next = EmptyMap
    /\ informed = [c \in Channels |-> {}]
    /\ join_senders = [cid \in CallIds |-> {}]
    /\ steps = MaxChatSteps

NextChat ==
    \/ \E ch \in Channels, cid \in CallIds, tok \in {BadToken, NoToken} :
          JoinCall(ch, cid, tok, None)
    \/ \E ch \in Channels : Close(ch)
    \/ \E ch \in Channels : Chat(ch, "hi")
    \/ \E ch \in Channels, m \in BOOLEAN : Mute(ch, m)
    \/ \E ch \in Channels : AudioData(ch, "opus")

SpecChat == InitChat /\ [][NextChat]_vars

(***************************************************************************)
(* Properties.  A state is what the server holds after a handler returned; *)
(* `last` is the event that handler served and `sent` what it pushed.      *)
(***************************************************************************)
\* the pushes of a handler's output, over all its loops
Pushes(out) == UNION {BagToSet(out[i]) : i \in DOMAIN out}

\* the participants of the calls in the registry
Members == UNION {DOMAIN calls[cid].participants : cid \in DOMAIN calls}

\* C1: connections and participant_channels are exact inverses after every
\* handler: connections[c] = p if and only if participant_channels[p] = c.
C1_InverseMaps ==
    /\ \A c \in DOMAIN connections :
          /\ connections[c] \in DOMAIN participant_channels
          /\ participant_channels[connections[c]] = c
    /\ \A p \in DOMAIN participant_channels :
          /\ participant_channels[p] \in DOMAIN connections
          /\ connections[participant_channels[p]] = p

\* C2: after every handler, every channel in connections is bound to a
\* participant that is a member of exactly one call of the registry, and no
\* handler answers a bound channel with "Not in a call".
C2_BoundChannelInOneCall ==
    /\ \A c \in DOMAIN connections : Cardinality(CallsOf(connections[c])) = 1
    /\ \A e \in Pushes(sent) : e.msg # [type |-> "Error", text |-> "Not in a call"]

\* C3: after every handler, for every call in the registry the participants
\* registered in its mixer are exactly the keys of its participants map (no
\* mixer counts as an empty one).
C3_MixerMatchesRoom ==
    \A cid \in DOMAIN calls : MixerMembers(cid) = DOMAIN calls[cid].participants

\* a Close or leave_call took one participant out of a call that goes on
\* with two, all of them in its mixer after audio has been mixed
C3_Witness ==
    /\ last.op \in {"Close", "leave_call"}
    /\ \E e \in Pushes(sent) : e.msg.type = "ParticipantLeft"
    /\ \E cid \in DOMAIN calls :
          /\ Cardinality(DOMAIN calls[cid].participants) = 2
          /\ MixerMembers(cid) = DOMAIN calls[cid].participants
          /\ audio_processors[cid].ogg_streams # {}

\* is there a push of message m to channel c in loop i of the output
PushedIn(out, i, c, m) == Push(c, m) \in BagToSet(out[i])

\* CallEnded reaches c in a loop before the loop that brings it CloseConnection
EndedThenClosed(out, c) ==
    \E i, j \in DOMAIN out :
        /\ i < j
        /\ PushedIn(out, i, c, [type |-> "CallEnded"])
        /\ PushedIn(out, j, c, [type |-> "CloseConnection"])

\* no CallEnded is pushed after a CloseConnection
AllEndedBeforeAnyClosed(out) ==
    \A i, j \in DOMAIN out :
        (/\ \E e \in BagToSet(out[i]) : e.msg = [type |-> "CloseConnection"]
         /\ \E e \in BagToSet(out[j]) : e.msg = [type |-> "CallEnded"]) => j < i

\* the step is the departure of the host of call cid: the channel it joined
\* through closes, or leave_call is invoked for it
HostLeaves(cid) ==
    LET h == calls[cid].host_id IN
    /\ h \in DOMAIN calls[cid].participants
    /\ \/ last'.op = "Close" /\ last'.ch = calls[cid].participants[h].via
       \/ last'.op = "leave_call" /\ last'.call = cid /\ last'.pid = h

\* the open channels through which the other participants of the call joined
OtherLiveChannels(cid) ==
    {calls[cid].participants[q].via :
        q \in DOMAIN calls[cid].participants \ {calls[cid].host_id}}
    \ (closed' \cup {calls[cid].participants[calls[cid].host_id].via})

\* C4: when the host of a call leaves (its channel closes, or leave_call is
\* invoked for it), every other channel still live in the call is sent
\* CallEnded and then CloseConnection, all CallEnded before any
\* CloseConnection, and the call is absent from the registry afterwards.
C4_HostDepartureEndsCall ==
    [][\A cid \in DOMAIN calls : HostLeaves(cid) =>
          /\ cid \notin DOMAIN calls'
          /\ \A c \in OtherLiveChannels(cid) : EndedThenClosed(sent', c)
          /\ AllEndedBeforeAnyClosed(sent')]_vars

\* the step is a leave of participant P, a member of call R and of no other:
\* leave_call for P in R, or the Close of the channel bound to P
LeaveOf(P, R) ==
    /\ CallsOf(P) = {R}
    /\ \/ last'.op = "leave_call" /\ last'.call = R /\ last'.pid = P
       \/ /\ last'.op = "Close"
          /\ last'.ch \in DOMAIN connections
          /\ connections[last'.ch] = P

\* the channels of participant P before the step
ChannelsOf(P) ==
    {c \in DOMAIN connections : connections[c] = P}
    \cup (IF P \in DOMAIN participant_channels THEN {participant_channels[P]} ELSE {})

\* C5: a leave of P in R terminates R if and only if P is R's host or its
\* only participant; otherwise R stays, P is removed from R's participants,
\* from R's mixer, from the sequencer table and from the channel registry,
\* and ParticipantLeft(P) goes to the channel of every remaining participant
\* of R and not to P's channel.
C5_LeaveTerminatesOrRemoves ==
    [][\A R \in DOMAIN calls : \A P \in DOMAIN calls[R].participants :
        LeaveOf(P, R) =>
          LET left == [type |-> "ParticipantLeft", participant_id |-> P] IN
          /\ R \notin DOMAIN calls'
                <=> (calls[R].host_id = P \/ DOMAIN calls[R].participants = {P})
          /\ R \in DOMAIN calls' =>
                /\ P \notin DOMAIN calls'[R].participants
                /\ R \in DOMAIN audio_processors' =>
                      P \notin DOMAIN audio_processors'[R].raw
                /\ P \notin DOMAIN participant_output_sequences'
                /\ P \notin DOMAIN participant_channels'
                /\ P \notin Range(connections')
                /\ \A q \in DOMAIN calls'[R].participants :
                      q \in DOMAIN participant_channels' =>
                         Push(participant_channels'[q], left) \in Pushes(sent')
                /\ \A c \in ChannelsOf(P) : Push(c, left) \notin Pushes(sent')]_vars

\* C6: each live channel is associated with at most one participant across
\* all calls: no two distinct participants present in a call have
\* participant_channels entries pointing at the same channel.
C6_OneParticipantPerChannel ==
    \A p, q \in Members \cap DOMAIN participant_channels :
        participant_channels[p] = participant_channels[q] => p = q

\* C7: after the Close of channel C has been handled, no participant that
\* joined through C remains in the participants map of any call.
C7_ClosedChannelLeavesNoMember ==
    \A c \in closed : \A cid \in DOMAIN calls :
        \A p \in DOMAIN calls[cid].participants : calls[cid].participants[p].via # c

\* C8: after every handler, for every call in the registry whose host_id is
\* Some(P), P is a key of the call's participants map.
C8_HostIsParticipant ==
    \A cid \in DOMAIN calls :
        calls[cid].host_id # None => calls[cid].host_id \in DOMAIN calls[cid].participants

\* a participant that is not the host left a call, which goes on with its host
C8_Witness ==
    /\ last.op \in {"Close", "leave_call"}
    /\ \E e \in Pushes(sent) : e.msg.type = "ParticipantLeft"
    /\ \E cid \in DOMAIN calls :
          /\ calls[cid].host_id # None
          /\ calls[cid].host_id \in DOMAIN calls[cid].participants

\* the outbound AudioData pushes of a handler's output
AudioFrames(out) == {e \in Pushes(out) : e.msg.type = "AudioData"}

\* how many AudioData pushes the output holds for channel c
AudioFrameCount(out, c) ==
    LET RECURSIVE Sum(_)
        Sum(S) == IF S = {} THEN 0
                  ELSE LET x == CHOOSE y \in S : TRUE
                       IN CopiesIn(x[2], out[x[1]]) + Sum(S \ {x})
    IN Sum({<<i, e>> \in (DOMAIN out) \X AudioFrames(out) : e.ch = c /\ BagIn(e, out[i])})

\* C9: within one join, the sequence numbers of the AudioData messages
\* delivered on a participant's channel start at 0 and each next message
\* carries the previous sequence plus one (mod 2^32): a handler delivers to
\* a joined channel at most one frame, and it carries the value the channel
\* expects, 0 after the join and one more after every frame.
C9_SequenceGapless ==
    [][\A c \in DOMAIN rx_next :
          /\ AudioFrameCount(sent', c) <= 1
          /\ \A e \in AudioFrames(sent') : e.ch = c => e.msg.sequence = rx_next[c]]_vars

\* s + 1 modulo 2^32, limb by limb with carry
WrapSucc(s) ==
    LET lo == (s[2] + 1) % LimbBase
        hi == (s[1] + (s[2] + 1) \div LimbBase) % LimbBase
    IN <<hi, lo>>

\* x + y modulo 2^64, limb by limb with carry
U64Add(x, y) ==
    LET s4 == x[4] + y[4]
        s3 == x[3] + y[3] + (s4 \div LimbBase)
        s2 == x[2] + y[2] + (s3 \div LimbBase)
        s1 == x[1] + y[1] + (s2 \div LimbBase)
    IN <<s1 % LimbBase, s2 % LimbBase, s3 % LimbBase, s4 % LimbBase>>

\* twenty times the 32-bit value s as a 64-bit value, by additions
TimesTwenty(s) ==
    LET x == <<0, 0, s[1], s[2]>>
        x2 == U64Add(x, x)
        x4 == U64Add(x2, x2)
        x5 == U64Add(x4, x)
        x10 == U64Add(x5, x5)
    IN U64Add(x10, x10)

\* C10: the output counter of a participant is a 32-bit value that wraps:
\* the frame sent when the counter is at 2^32-1 carries that value and the
\* next frame to the participant carries 0, every frame carrying the value
\* of the counter and leaving it at that value plus one modulo 2^32; the
\* timestamp of every frame is its sequence value times 20.
C10_CounterWraps ==
    [][\A e \in AudioFrames(sent') :
          /\ e.msg.timestamp = TimesTwenty(e.msg.sequence)
          /\ \E p \in DOMAIN participant_channels :
                /\ participant_channels[p] = e.ch
                /\ \/ p \in DOMAIN participant_output_sequences
                      /\ participant_output_sequences[p] = e.msg.sequence
                   \/ p \notin DOMAIN participant_output_sequences
                      /\ e.msg.sequence = <<0, 0>>
                /\ p \in DOMAIN participant_output_sequences'
                /\ participant_output_sequences'[p] = WrapSucc(e.msg.sequence)]_vars

\* a handler sent a frame that carries 2^32-1 with a timestamp beyond 32
\* bits, and the counter of its participant is at 0
C10_Witness ==
    /\ last.op = "AudioData"
    /\ \E e \in AudioFrames(sent) :
          /\ e.msg.sequence = <<LimbBase - 1, LimbBase - 1>>
          /\ e.msg.timestamp = <<0, 19, LimbBase - 1, LimbBase - 20>>
          /\ \E p \in DOMAIN participant_channels :
                /\ participant_channels[p] = e.ch
                /\ participant_output_sequences[p] = <<0, 0>>

\* the handler that returned last served a client message without an Error
Answered(op) == last.op = op /\ \A e \in Pushes(sent) : e.msg.type # "Error"

\* the participants of a mixer whose raw slot is not empty
ActiveSet(proc) == {q \in DOMAIN proc.raw : proc.raw[q] # ""}

\* whose PCM the frame of target T has to sum
ExpectedContributors(proc, T) ==
    IF T \in ActiveSet(proc) THEN ActiveSet(proc) \ {T} ELSE ActiveSet(proc)

\* C11: in every mix step, for every registered target T: if T is in the
\* active set, the participants whose PCM is summed into T's frame are
\* exactly active \ {T} (T's own audio is never included); if T is not in
\* the active set, they are exactly the whole active set.
C11_MixMinus ==
    Answered("AudioData") =>
        \E cid \in CallsOf(connections[last.ch]) \cap DOMAIN audio_processors :
            LET proc == audio_processors[cid]
                targets == DOMAIN proc.raw \cap DOMAIN participant_channels
            IN  /\ \A T \in targets : ExpectedContributors(proc, T) # {} =>
                      \E e \in AudioFrames(sent) :
                          /\ e.ch = participant_channels[T]
                          /\ DOMAIN e.msg.data.mix = ExpectedContributors(proc, T)
                /\ \A e \in AudioFrames(sent) : \E T \in targets :
                      /\ e.ch = participant_channels[T]
                      /\ DOMAIN e.msg.data.mix = ExpectedContributors(proc, T)
                      /\ T \notin DOMAIN e.msg.data.mix

\* a mix step with two active participants: each of them gets the other's
\* PCM and not its own
C11_Witness ==
    /\ Answered("AudioData")
    /\ \E cid \in DOMAIN audio_processors :
          LET proc == audio_processors[cid] IN
          /\ Cardinality(ActiveSet(proc)) = 2
          /\ \A T \in ActiveSet(proc) :
                /\ T \in DOMAIN participant_channels
                /\ \E e \in AudioFrames(sent) :
                      /\ e.ch = participant_channels[T]
                      /\ DOMAIN e.msg.data.mix = ActiveSet(proc) \ {T}

\* the Error pushes of a handler's output
Errors(out) == {e \in Pushes(out) : e.msg.type = "Error"}

\* how many pushes the output holds, over all its loops
PushCount(out) ==
    LET RECURSIVE Sum(_)
        Sum(i) == IF i = 0 THEN 0 ELSE BagCardinality(out[i]) + Sum(i - 1)
    IN Sum(Len(out))

\* C12: an AudioData whose payload begins with "OggS" is rejected: the
\* sender receives an Error, no AudioData is sent to any participant, and
\* the mixer state is the same as before the message.
C12_OggRejected ==
    [][(last'.op = "AudioData" /\ last'.data = "OggS") =>
          /\ \E e \in Errors(sent') : e.ch = last'.ch
          /\ AudioFrames(sent') = {}
          /\ audio_processors' = audio_processors]_vars

\* the events that are client messages on a channel
ClientMessages == {"JoinCall", "Chat", "Mute", "AudioData", "UpdateRole", "UpdateSettings",
                   "UpdateSpeakingState", "UpdateAvatar", "Heartbeat", "InvalidMessage"}

\* the state of the server: the fields of VoiceState
ServerState == <<calls, connections, participant_channels, call_channels,
                 used_pleb_names, node_auth_tokens, audio_processors,
                 participant_output_sequences>>

\* C13: whenever a handler answers a client message with an Error, it emits
\* exactly one Error, to the requesting channel, and the entire server state
\* (calls, participants, chat history, channel registry, mixer slots and
\* flags, sequencers, used names) is identical to the state before.
C13_ErrorLeavesState ==
    [][(last'.op \in ClientMessages /\ Errors(sent') # {}) =>
          /\ PushCount(sent') = 1
          /\ \A e \in Pushes(sent') : e.ch = last'.ch /\ e.msg.type = "Error"
          /\ ServerState' = ServerState]_vars

\* the step serves an AudioData with payload `data` from a channel bound to
\* a participant that is in a call and has a speaking role wherever it is
AuthorizedAudio(data) ==
    /\ last'.op = "AudioData" /\ last'.data = data
    /\ last'.ch \in DOMAIN connections
    /\ CallsOf(connections[last'.ch]) # {}
    /\ \A cid \in CallsOf(connections[last'.ch]) :
          calls[cid].participants[connections[last'.ch]].role \in {"Speaker", "Admin"}

\* C14: when decoding an authorized sender's AudioData fails, no mix step
\* runs and no participant receives AudioData, the sender stays a
\* participant of the room and of the mixer with its channel bound, and a
\* later valid frame from the same sender is decoded and mixed normally.
C14_DecodeFailureKeepsSender ==
    [][LET P == connections[last'.ch] IN
       /\ AuthorizedAudio("junk") =>
             /\ \E e \in Errors(sent') : e.ch = last'.ch
             /\ AudioFrames(sent') = {}
             /\ participant_output_sequences' = participant_output_sequences
             /\ \A cid \in DOMAIN audio_processors :
                   /\ audio_processors'[cid].audio = audio_processors[cid].audio
                   /\ audio_processors'[cid].ogg_streams = audio_processors[cid].ogg_streams
             /\ calls' = calls
             /\ connections' = connections
             /\ participant_channels' = participant_channels
             /\ \E cid \in CallsOf(P) : P \in DOMAIN audio_processors'[cid].raw
       /\ (/\ AuthorizedAudio("opus")
           /\ \E cid \in CallsOf(P) \cap DOMAIN audio_processors :
                 /\ P \in DOMAIN audio_processors[cid].raw
                 /\ audio_processors[cid].raw[P] = "junk") =>
             /\ Errors(sent') = {}
             /\ \E cid \in CallsOf(P) :
                   /\ audio_processors'[cid].audio[P] = "voice"
                   /\ \A T \in (DOMAIN audio_processors'[cid].raw
                                   \cap DOMAIN participant_channels) \ {P} :
                         \E e \in AudioFrames(sent') :
                             /\ e.ch = participant_channels[T]
                             /\ P \in DOMAIN e.msg.data.mix
                             /\ e.msg.data.mix[P] = "voice"]_vars

\* a speaker's frame failed to decode in a room of two: the speaker got the
\* Error, nobody got AudioData, and the speaker is still in the room and
\* in the mixer, its channel bound
C14_Witness ==
    /\ last.op = "AudioData" /\ last.data = "junk"
    /\ sent = <<send_error_to_channel(last.ch, "Audio decode error")>>
    /\ last.ch \in DOMAIN connections
    /\ \E cid \in CallsOf(connections[last.ch]) :
          /\ Cardinality(DOMAIN calls[cid].participants) = 2
          /\ connections[last.ch] \in MixerMembers(cid)
          /\ audio_processors[cid].raw[connections[last.ch]] = "junk"

\* the roles the sender of the AudioData being served holds in its calls
SenderRoles ==
    {calls[cid].participants[connections[last'.ch]].role :
        cid \in CallsOf(connections[last'.ch])}

\* the step serves an AudioData from a bound channel whose participant is
\* in a call
AudioFromParticipant ==
    /\ last'.op = "AudioData"
    /\ last'.ch \in DOMAIN connections
    /\ CallsOf(connections[last'.ch]) # {}

\* C15: an AudioData message is admitted for decoding only if the sender's
\* role is Speaker or Admin; a Listener or Chatter gets exactly one Error
\* "No audio permission", no AudioData is sent to anyone, and the mixer
\* and the sequence counters are unchanged.
C15_AudioNeedsSpeakingRole ==
    [][AudioFromParticipant =>
          /\ SenderRoles \subseteq {"Listener", "Chatter"} =>
                /\ sent' = <<send_error_to_channel(last'.ch, "No audio permission")>>
                /\ PushCount(sent') = 1
                /\ AudioFrames(sent') = {}
                /\ audio_processors' = audio_processors
                /\ participant_output_sequences' = participant_output_sequences
          /\ (\A e \in Errors(sent') : e.msg.text # "No audio permission") =>
                SenderRoles \cap {"Speaker", "Admin"} # {}]_vars

\* a Chatter sent a well-formed frame and was turned away
C15_Witness ==
    /\ last.op = "AudioData" /\ last.data = "opus"
    /\ last.ch \in DOMAIN connections
    /\ \E cid \in CallsOf(connections[last.ch]) :
          /\ calls[cid].participants[connections[last.ch]].role = "Chatter"
          /\ Cardinality(DOMAIN calls[cid].participants) = 2
    /\ sent = <<send_error_to_channel(last.ch, "No audio permission")>>

\* the event before this step was an UpdateRole that took effect
RoleJustUpdated ==
    /\ last.op = "UpdateRole"
    /\ \E e \in Pushes(sent) : e.msg.type = "RoleUpdated"

\* the AudioData served by this step passed the gates in front of the decoder
Admitted ==
    \A e \in Errors(sent') :
        e.msg.text \notin {"Not authenticated", "Not in a call", "No audio permission"}

RoomChannels(cid) ==
    {calls[cid].participants[p].via : p \in DOMAIN calls[cid].participants} \ closed

\* the rooms in which this step gave the target the requested role
RoleChangedIn ==
    {cid \in DOMAIN calls :
        /\ last'.target \in DOMAIN calls[cid].participants
        /\ calls' = [calls EXCEPT ![cid].participants[last'.target].role = last'.role]}

\* the requester of the UpdateRole being served is an Admin of room cid
\* and the target is a participant of that room
MayUpdateRole(cid) ==
    /\ last'.ch \in DOMAIN connections
    /\ connections[last'.ch] \in DOMAIN calls[cid].participants
    /\ calls[cid].participants[connections[last'.ch]].role = "Admin"
    /\ last'.target \in DOMAIN calls[cid].participants

\* C17: UpdateRole changes a role only when the requester is Admin and the
\* target is in the requester's call; then the target's role equals the new
\* role and RoleUpdated is sent to every channel of the call; otherwise the
\* requester gets an Error, no role changes and nothing is broadcast.
C17_UpdateRoleByAdminOnly ==
    [][last'.op = "UpdateRole" =>
         IF \E cid \in DOMAIN calls : MayUpdateRole(cid)
         THEN \E cid \in RoleChangedIn :
                 /\ MayUpdateRole(cid)
                 /\ calls'[cid].participants[last'.target].role = last'.role
                 /\ \A c \in RoomChannels(cid) :
                       \E e \in Pushes(sent') :
                           /\ e.ch = c
                           /\ e.msg = [type |-> "RoleUpdated",
                                       participant_id |-> last'.target,
                                       new_role |-> last'.role]
                 /\ Errors(sent') = {}
         ELSE /\ calls' = calls
              /\ \E e \in Errors(sent') : e.ch = last'.ch
              /\ \A e \in Pushes(sent') : e.msg.type = "Error"]_vars

\* the JoinSuccess answers of the step that served a JoinCall
JoinAnswers ==
    {e \in Pushes(sent') : last'.op = "JoinCall" /\ e.ch = last'.ch
                            /\ e.msg.type = "JoinSuccess"}

\* C18: on a successful JoinCall to a call without a creator the joiner
\* becomes creator_id and host_id and gets role Admin; otherwise creator_id
\* and host_id are unchanged and the joiner gets the call's default_role; in
\* both cases the joiner starts with is_muted = true.
C18_FirstJoinerIsCreator ==
    [][\A e \in JoinAnswers :
          LET cid == last'.call
              P == e.msg.participant_id
          IN /\ P \in DOMAIN calls'[cid].participants
             /\ calls'[cid].participants[P].is_muted = TRUE
             /\ IF calls[cid].creator_id = None
                THEN /\ calls'[cid].creator_id = P
                     /\ calls'[cid].host_id = P
                     /\ calls'[cid].participants[P].role = "Admin"
                ELSE /\ calls'[cid].creator_id = calls[cid].creator_id
                     /\ calls'[cid].host_id = calls[cid].host_id
                     /\ calls'[cid].participants[P].role = calls[cid].default_role]_vars

\* a second participant has just joined a room whose creator is its Admin
\* host: the joiner holds the default role and is muted
C18_Witness ==
    /\ last.op = "JoinCall"
    /\ \E e \in Pushes(sent) :
          /\ e.msg.type = "JoinSuccess" /\ e.ch = last.ch
          /\ LET call == calls[last.call]
                 P == e.msg.participant_id
             IN /\ call.creator_id \notin {None, P}
                /\ call.host_id = call.creator_id
                /\ call.participants[call.creator_id].role = "Admin"
                /\ call.participants[P].role = call.default_role
                /\ call.participants[P].is_muted

\* C19: in every call the participant recorded as creator_id holds role
\* Admin; neither UpdateRole nor a repeated join changes that.
C19_CreatorIsAdmin ==
    \A cid \in DOMAIN calls :
        (/\ calls[cid].creator_id # None
         /\ calls[cid].creator_id \in DOMAIN calls[cid].participants)
            => calls[cid].participants[calls[cid].creator_id].role = "Admin"

\* the client messages that pass through the authentication gate
GatedMessages == ClientMessages \ {"JoinCall", "InvalidMessage"}

\* C20: on a channel that is not in the connections map every client
\* message other than JoinCall produces exactly one Error to that channel,
\* no message to any other channel and no change of the server state.
C20_UnboundChannelRefused ==
    [][(last'.op \in GatedMessages /\ last'.ch \notin DOMAIN connections) =>
          /\ PushCount(sent') = 1
          /\ \A e \in Pushes(sent') : e.ch = last'.ch /\ e.msg.type = "Error"
          /\ ServerState' = ServerState]_vars

\* a channel that never joined sent a Heartbeat while a room had a
\* participant on another channel, and got the one Error
C20_Witness ==
    /\ last.op = "Heartbeat"
    /\ last.ch \notin DOMAIN connections
    /\ sent = <<send_error_to_channel(last.ch, "Not authenticated")>>
    /\ \E c \in DOMAIN connections : c # last.ch /\ CallsOf(connections[c]) # {}

\* C21: a JoinCall whose auth token is not in the node-auth table is always
\* answered with an Error and creates no participant, whatever the call id
\* and the state of the call (a call of this server without a creator
\* included).
C21_UnknownTokenRefused ==
    [][(/\ last'.op = "JoinCall"
        /\ last'.tok # NoToken
        /\ last'.tok \notin DOMAIN node_auth_tokens)
          => /\ \E e \in Errors(sent') : e.ch = last'.ch
             /\ \A cid \in DOMAIN calls :
                   /\ cid \in DOMAIN calls'
                   /\ DOMAIN calls'[cid].participants = DOMAIN calls[cid].participants]_vars

\* C22: a JoinCall without an auth token, on a call whose id prefix is this
\* server's node id and which has no creator yet, yields a participant whose
\* id is this server's node id, not a freshly generated id.
C22_TokenlessHostIsOurNode ==
    [][(/\ last'.op = "JoinCall"
        /\ last'.tok = NoToken
        /\ last'.call \in DOMAIN calls
        /\ HostNodeOf(last'.call) = OurNode
        /\ calls[last'.call].creator_id = None)
          => /\ last'.ch \in DOMAIN connections'
             /\ connections'[last'.ch] = OurNode
             /\ OurNode \in DOMAIN calls'[last'.call].participants]_vars

\* how many times the pushes of the set S occur in the handler's output
Copies(out, S) ==
    LET RECURSIVE Sum(_)
        Sum(T) == IF T = {} THEN 0
                  ELSE LET x == CHOOSE y \in T : TRUE
                       IN CopiesIn(x[2], out[x[1]]) + Sum(T \ {x})
    IN Sum({<<i, e>> \in (DOMAIN out) \X S : BagIn(e, out[i])})

\* the pushes of one message type that went to channel c
TypedTo(out, c, type) == {e \in Pushes(out) : e.ch = c /\ e.msg.type = type}

\* the live channel a participant of a call joined through
ChannelOf(call, p) == call.participants[p].via

\* C23: on a successful JoinCall on channel C into call R, C receives
\* exactly one JoinSuccess carrying the full participant set of R (joiner
\* included), R's chat history and R's host; C receives no
\* ParticipantJoined; and the channel of every other participant of R
\* receives exactly one ParticipantJoined for the joiner.
C23_JoinAnnounced ==
    [][\A e \in JoinAnswers :
          LET C == last'.ch
              R == calls'[last'.call]
              J == e.msg.participant_id
          IN /\ Copies(sent', TypedTo(sent', C, "JoinSuccess")) = 1
             /\ J \in e.msg.participants
             /\ e.msg.participants = DOMAIN R.participants
             /\ e.msg.chat_history = R.chat_history
             /\ e.msg.host_id = R.host_id
             /\ TypedTo(sent', C, "ParticipantJoined") = {}
             /\ \A p \in DOMAIN R.participants \ {J} :
                   ChannelOf(R, p) \notin closed =>
                      LET got == TypedTo(sent', ChannelOf(R, p), "ParticipantJoined")
                      IN /\ Copies(sent', got) = 1
                         /\ \A g \in got : g.msg.participant_id = J]_vars

\* the roles a participant holds in the calls it is in
RolesOf(p) == {calls[cid].participants[p].role : cid \in CallsOf(p)}

\* the step serves a message of kind op from a bound channel whose
\* participant is in a call
FromParticipant(op) ==
    /\ last'.op = op
    /\ last'.ch \in DOMAIN connections
    /\ CallsOf(connections[last'.ch]) # {}

\* C24: a Chat is accepted exactly when the sender's current role is
\* Chatter, Speaker or Admin.  Accepted, one ChatMessage with the sender's
\* id and display name is appended at the end of the call's history and
\* delivered once to the channel of every participant of the call, the
\* sender included; from a Listener the history is unchanged, nothing is
\* broadcast and the sender gets an Error.
C24_ChatNeedsChatRole ==
    [][FromParticipant("Chat") =>
         LET P == connections[last'.ch] IN
         /\ RolesOf(P) \cap {"Chatter", "Speaker", "Admin"} # {} =>
               \E cid \in CallsOf(P) :
                  LET m == [sender_id |-> P,
                            sender_name |-> calls[cid].participants[P].display_name,
                            content |-> "hi"]
                  IN /\ calls' = [calls EXCEPT ![cid].chat_history = Append(@, m)]
                     /\ Errors(sent') = {}
                     /\ \A q \in DOMAIN calls[cid].participants :
                           ChannelOf(calls[cid], q) \notin closed =>
                              LET got == TypedTo(sent', ChannelOf(calls[cid], q), "Chat")
                              IN /\ Copies(sent', got) = 1
                                 /\ \A g \in got : g.msg.message = m
         /\ RolesOf(P) = {"Listener"} =>
               /\ calls' = calls
               /\ PushCount(sent') = 1
               /\ \A e \in Pushes(sent') : e.ch = last'.ch /\ e.msg.type = "Error"]_vars

\* an AudioData step from a speaker is decoded and mixed: the speaker's
\* slots are written and every other registered participant that has a
\* channel gets one frame with the speaker's voice in its mix
SpeakerMixed ==
    LET P == connections[last'.ch] IN
    /\ Errors(sent') = {}
    /\ \E cid \in CallsOf(P) :
          /\ audio_processors'[cid].raw[P] = "opus"
          /\ audio_processors'[cid].audio[P] = "voice"
          /\ \A T \in (DOMAIN audio_processors'[cid].raw
                          \cap DOMAIN participant_channels) \ {P} :
                \E e \in AudioFrames(sent') :
                    /\ e.ch = participant_channels[T]
                    /\ P \in DOMAIN e.msg.data.mix
                    /\ e.msg.data.mix[P] = "voice"

\* a Mute step sets the sender's flag to the value given and tells every
\* channel of the call
MuteServed ==
    LET P == connections[last'.ch] IN
    \E cid \in CallsOf(P) :
       /\ calls' = [calls EXCEPT ![cid].participants[P].is_muted = last'.muted]
       /\ Errors(sent') = {}
       /\ \A q \in DOMAIN calls[cid].participants :
             ChannelOf(calls[cid], q) \notin closed =>
                \E e \in TypedTo(sent', ChannelOf(calls[cid], q), "ParticipantMuted") :
                    e.msg = [type |-> "ParticipantMuted", participant_id |-> P,
                             is_muted |-> last'.muted]

\* C25: the is_muted flag never gates audio: an AudioData from a Speaker
\* or Admin gives the same mixer update and the same outbound frames
\* whether the sender's flag is true or false.  Mute is accepted from any
\* role, sets the flag to the given value and broadcasts ParticipantMuted
\* to every channel of the call.
C25_MuteIsAdvisory ==
    [][/\ (/\ FromParticipant("AudioData")
           /\ last'.data = "opus"
           /\ RolesOf(connections[last'.ch]) \subseteq {"Speaker", "Admin"})
             => SpeakerMixed
       /\ FromParticipant("Mute") => MuteServed]_vars

\* the registry and mixer invariants: the two connection maps are inverse,
\* every bound participant is in one call, the mixer of a call registers
\* its participants and the host of a call is one of them
RegistryInvariants ==
    /\ C1_InverseMaps
    /\ \A c \in DOMAIN connections : Cardinality(CallsOf(connections[c])) = 1
    /\ C3_MixerMatchesRoom
    /\ C8_HostIsParticipant

\* the event before this step took a participant out of call cid, which
\* goes on: ParticipantLeft went to a participant that is still in it
LeftCall(cid) ==
    /\ last.op \in {"leave_call", "Close"}
    /\ cid \in DOMAIN calls
    /\ \E e \in Pushes(sent) :
          /\ e.msg.type = "ParticipantLeft"
          /\ e.msg.participant_id \notin DOMAIN calls[cid].participants
          /\ \E q \in DOMAIN calls[cid].participants : ChannelOf(calls[cid], q) = e.ch

\* C26: when a participant that is neither the host nor the last one leaves
\* a call and then joins it again, the state of that participant is that of
\* a fresh join: output sequencer 0, raw slot empty, PCM slot silence,
\* has-sent flag false, default role, muted; and the registry and mixer
\* invariants hold.
C26_RejoinIsFreshJoin ==
    [][\A e \in JoinAnswers :
          (/\ LeftCall(last'.call)
           /\ last'.ch \notin DOMAIN connections
           /\ e.msg.participant_id \notin DOMAIN calls[last'.call].participants) =>
             LET cid == last'.call
                 J == e.msg.participant_id
                 proc == audio_processors'[cid]
             IN /\ participant_output_sequences'[J] = U32(0)
                /\ proc.raw[J] = ""
                /\ proc.audio[J] = "silence"
                /\ proc.has_sent[J] = FALSE
                /\ J \notin proc.ogg_streams
                /\ calls'[cid].participants[J].role = calls[cid].default_role
                /\ calls'[cid].participants[J].is_muted
                /\ RegistryInvariants']_vars

\* the calls this step terminated
Terminated == DOMAIN calls \ DOMAIN calls'

\* C27: when a call is terminated (by Close or by leave_call), nothing of
\* it remains after the handler: the call is out of the call table, its
\* mixer, its used-name list and its channel set are removed, and no
\* output-sequencer entry remains for a participant that was in the call.
C27_TerminationClearsCall ==
    [][\A cid \in Terminated :
          /\ cid \notin DOMAIN audio_processors'
          /\ cid \notin DOMAIN used_pleb_names'
          /\ cid \notin DOMAIN call_channels'
          /\ \A p \in DOMAIN calls[cid].participants :
                CallsOf(p) = {cid} => p \notin DOMAIN participant_output_sequences']_vars

MixStepRan ==
    /\ last'.op = "AudioData"
    /\ Errors(sent') = {}

\* C29: at the end of every mix step the raw slot of every participant
\* that was in the active set is empty, so only participants that sent a
\* frame since the previous mix step are mixed: a participant that has
\* stopped sending is not in the frames of later ticks.
C29_RawSlotsCleared ==
    [][MixStepRan =>
          /\ \A cid \in DOMAIN audio_processors' :
                \A p \in DOMAIN audio_processors'[cid].raw :
                    audio_processors'[cid].raw[p] = ""
          /\ \A e \in AudioFrames(sent') :
                DOMAIN e.msg.data.mix \subseteq {connections[last'.ch]}]_vars

\* the frames the output holds for channel c, counted with repetition
FramesTo(out, c) == Copies(out, {e \in AudioFrames(out) : e.ch = c})

\* C30: in a mix step a target without contributors (an active speaker
\* that is the whole active set) gets no entry in the result map: it
\* receives no AudioData and its output sequencer does not advance; in a
\* room whose only participant is the speaker nothing is sent.  A target
\* that is not active and has a contributor gets exactly one frame, also
\* when the contributed PCM is silence.
C30_NoContributorNoFrame ==
    [][MixStepRan =>
          \E cid \in CallsOf(connections[last'.ch]) \cap DOMAIN audio_processors' :
             LET proc == audio_processors'[cid]
                 targets == DOMAIN proc.raw \cap DOMAIN participant_channels
             IN /\ \A T \in targets :
                      IF ExpectedContributors(proc, T) = {}
                      THEN /\ FramesTo(sent', participant_channels[T]) = 0
                           /\ T \in DOMAIN participant_output_sequences =>
                                 participant_output_sequences'[T] =
                                    participant_output_sequences[T]
                      ELSE T \notin ActiveSet(proc) =>
                              FramesTo(sent', participant_channels[T]) = 1
                /\ DOMAIN proc.raw = {connections[last'.ch]} => sent' = << >>]_vars

\* C31: an AudioData whose payload is empty (also when its base64 text did
\* not decode) is rejected: the sender receives an Error, the decoder
\* produces no frame for the mixer, no mix step runs and no participant
\* receives AudioData.
C31_EmptyFrameRejected ==
    [][AuthorizedAudio("") =>
          /\ \E e \in Errors(sent') : e.ch = last'.ch
          /\ AudioFrames(sent') = {}
          /\ participant_output_sequences' = participant_output_sequences
          /\ \A cid \in DOMAIN audio_processors :
                /\ audio_processors'[cid].audio = audio_processors[cid].audio
                /\ audio_processors'[cid].ogg_streams = audio_processors[cid].ogg_streams]_vars

\* C32: the bytes the mixer returns for a target, which the outbound
\* AudioData carries, are the bytes the target's encoder wrote for the
\* frame and nothing else: no container page, no stream headers, on the
\* first frame of a target as on every later one.
C32_FrameIsEncoderOutput ==
    \A e \in AudioFrames(sent) : e.msg.data.container = "none"

\* the calls of the sender of the message being served
SenderCalls == CallsOf(connections[last'.ch])

\* the participants the mixer of call cid has registered after the step
\* whose frames go to channel c
TargetsOn(cid, c) ==
    IF cid \notin DOMAIN audio_processors' THEN {}
    ELSE {t \in DOMAIN audio_processors'[cid].raw :
             t \in DOMAIN participant_channels /\ participant_channels[t] = c}

\* C33: an AudioData is sent only by the handler of an inbound AudioData
\* that was admitted (speaking role) and decoded; that handler runs one mix
\* step, one fan-out loop with at most one frame per target; no other
\* event, and no refused or failed AudioData, sends a frame.
C33_MixOnlyOnAudio ==
    [][/\ AudioFrames(sent') # {} =>
             /\ last'.op = "AudioData"
             /\ last'.data \in {"opus", "OggS", ""}
             /\ last'.ch \in DOMAIN connections
             /\ RolesOf(connections[last'.ch]) \cap {"Speaker", "Admin"} # {}
             /\ Errors(sent') = {}
             /\ Len(sent') = 1
             /\ \E cid \in SenderCalls :
                   \A c \in Channels :
                       FramesTo(sent', c) <= Cardinality(TargetsOn(cid, c))
       /\ MixStepRan =>
             \E cid \in SenderCalls \cap DOMAIN audio_processors' :
                LET proc == audio_processors'[cid] IN
                \A T \in DOMAIN proc.raw :
                    ExpectedContributors(proc, T) # {} => T \in proc.ogg_streams]_vars

\* a frame has been delivered by the handler of an AudioData
C33_Witness ==
    /\ last.op = "AudioData"
    /\ AudioFrames(sent) # {}

\* the display names generate_pleb_name can form
AllPlebNames == {"pleb-" \o w : w \in word_dictionary}

\* the step accepted a JoinCall that brought neither a token nor a display name
AnonymousUnnamedJoins ==
    {e \in JoinAnswers : last'.tok = NoToken /\ last'.dn = None}

\* C34: in one call the generated names "pleb-<word>" are pairwise distinct
\* over the call's lifetime: a joiner never gets a name that was handed out
\* in the call before, also when its holder has left, because the names
\* handed out are kept as long as the call exists; and the first joiner of
\* a call that brings no token and no display name is named "Host".
C34_PlebNamesDistinct ==
    [][/\ \A e \in AnonymousUnnamedJoins :
             LET cid == last'.call
                 name == calls'[cid].participants[e.msg.participant_id].display_name
             IN IF calls[cid].creator_id = None
                THEN name = "Host"
                ELSE /\ name \in AllPlebNames
                     /\ name \notin used_pleb_names[cid]
                     /\ name \in used_pleb_names'[cid]
       /\ \A cid \in DOMAIN calls \cap DOMAIN calls' :
             used_pleb_names[cid] \subseteq used_pleb_names'[cid]]_vars

\* a generated name was handed out in a call in which an earlier generated
\* name is kept although nobody holds it any more
C34_Witness ==
    /\ last.op = "JoinCall" /\ last.tok = NoToken /\ last.dn = None
    /\ last.call \in DOMAIN calls
    /\ Cardinality(used_pleb_names[last.call]) = 2
    /\ Cardinality({q \in DOMAIN calls[last.call].participants :
           calls[last.call].participants[q].display_name \in AllPlebNames}) = 1

\* C35: every JoinCall without token and display name returns:
\* generate_pleb_name hands out a name after finitely many draws whatever
\* names the call has handed out, also when they are the whole dictionary,
\* so the event task is never held inside the handler.
C35_PlebNameTerminates ==
    [][last'.op = "JoinCall" => ~blocked']_vars

\* the messages of a room that go to its participants
RoomMessageTypes ==
    {"Chat", "ParticipantJoined", "ParticipantLeft", "RoleUpdated", "ParticipantMuted",
     "SpeakingStateUpdated", "AvatarUpdated", "AudioData"}

\* the room messages the step pushed
RoomPushes == {e \in Pushes(sent') : e.msg.type \in RoomMessageTypes}

\* the channels through which the participants of call cid joined it,
\* before the step or by it
JoinedChannels(cid) ==
    (IF cid \in DOMAIN calls
     THEN {calls[cid].participants[p].via : p \in DOMAIN calls[cid].participants}
     ELSE {})
    \cup
    (IF cid \in DOMAIN calls'
     THEN {calls'[cid].participants[p].via : p \in DOMAIN calls'[cid].participants}
     ELSE {})

\* the calls for which the step can have produced room messages: the call
\* an HTTP request or a JoinCall names, else a call of the bound participant
ServedCalls ==
    IF last'.op \in {"JoinCall", "leave_call"} THEN {last'.call}
    ELSE IF last'.op \in ClientMessages \cup {"Close"} /\ last'.ch \in DOMAIN connections
    THEN CallsOf(connections[last'.ch])
    ELSE {}

\* C36: rooms are isolated: the room messages a handler produces for call
\* R go only to channels that joined R, never to a channel that joined
\* another call only, also when one node id has joined two calls through
\* two channels.
C36_RoomsIsolated ==
    [][RoomPushes # {} =>
          \E R \in ServedCalls :
             \A e \in RoomPushes : e.ch \in JoinedChannels(R)]_vars

\* C37: leave_call(call_id, participant_id) for a call that exists and a
\* participant id that is not in it changes nothing: the channel binding,
\* the sequencer and the memberships of that id stay as they are and no
\* ParticipantLeft is broadcast in the named call.
C37_LeaveOfNonMemberIsNoOp ==
    [][(/\ last'.op = "leave_call"
        /\ last'.call \in DOMAIN calls
        /\ last'.pid \notin DOMAIN calls[last'.call].participants) =>
          /\ ServerState' = ServerState
          /\ \A e \in Pushes(sent') : e.msg.type # "ParticipantLeft"]_vars

\* C38: a call does not outlive its connections: whenever a participant
\* has joined call R and every channel that ever sent a JoinCall for R is
\* closed, R is out of the call registry; a call of the registry that
\* somebody joined has a live channel among those that asked to join it.
C38_CallNeedsLiveChannel ==
    \A R \in DOMAIN calls :
        calls[R].creator_id # None => join_senders[R] \ closed # {}

\* the channels bound to the participants of call R
BoundChannels(R) ==
    {c \in DOMAIN connections : connections[c] \in DOMAIN calls[R].participants}

\* call_channels[R], empty while the call has no entry
CallChannels(R) == IF R \in DOMAIN call_channels THEN call_channels[R] ELSE {}

\* C39: after every handler, for every call R of the registry,
\* call_channels[R] is the set of channels bound to the participants of R,
\* so that the CallEnded and CloseConnection of a termination reach the
\* channels of R's participants and no other.
C39_CallChannelsAreBound ==
    \A R \in DOMAIN calls : CallChannels(R) = BoundChannels(R)

\* the participant bound to the channel of the message being served
Sender == connections[last'.ch]

\* the role Sender holds in call cid is one of `allowed`
SenderHolds(cid, allowed) ==
    /\ last'.ch \in DOMAIN connections
    /\ Sender \in DOMAIN calls[cid].participants
    /\ calls[cid].participants[Sender].role \in allowed

\* the calls in which the step changed the role of a participant
RoleEffects ==
    {cid \in DOMAIN calls \cap DOMAIN calls' :
        \E p \in DOMAIN calls[cid].participants \cap DOMAIN calls'[cid].participants :
            calls'[cid].participants[p].role # calls[cid].participants[p].role}

\* the calls whose chat history the step changed
ChatEffects ==
    {cid \in DOMAIN calls \cap DOMAIN calls' :
        calls'[cid].chat_history # calls[cid].chat_history}

\* the calls whose mixer the step created or changed
MixerEffects ==
    {cid \in DOMAIN audio_processors' :
        cid \notin DOMAIN audio_processors
        \/ audio_processors'[cid] # audio_processors[cid]}

\* C40: role authority is confined to one call: an UpdateRole changes roles
\* only in a call of which the requester is Admin, and only of a
\* participant of that call; no role of another call changes; and for
\* Chat, AudioData and UpdateRole the permission is the role the requester
\* holds in the call in which the message takes effect.
C40_AuthorityInOneCall ==
    [][/\ last'.op = "UpdateRole" =>
             /\ Cardinality(RoleEffects) <= 1
             /\ \A cid \in RoleEffects :
                   /\ SenderHolds(cid, {"Admin"})
                   /\ last'.target \in DOMAIN calls[cid].participants
                   /\ calls' = [calls EXCEPT
                                   ![cid].participants[last'.target].role = last'.role]
       /\ last'.op = "Chat" =>
             /\ Cardinality(ChatEffects) <= 1
             /\ \A cid \in ChatEffects : SenderHolds(cid, {"Chatter", "Speaker", "Admin"})
       /\ last'.op = "AudioData" =>
             /\ Cardinality(MixerEffects) <= 1
             /\ \A cid \in MixerEffects : SenderHolds(cid, {"Speaker", "Admin"})]_vars

\* a participant that is in two calls, Listener in one of them, has changed
\* a role in the other, of which it is Admin
C40_Witness ==
    /\ last.op = "UpdateRole"
    /\ \E e \in Pushes(sent) : e.msg.type = "RoleUpdated"
    /\ last.ch \in DOMAIN connections
    /\ Cardinality(CallsOf(connections[last.ch])) = 2
    /\ "Listener" \in RolesOf(connections[last.ch])
    /\ last.role # "Listener"

====
